---- MODULE Spec2Model ----
(***************************************************************************)
(* Broadcast fan-out and per-method encoding pipeline of the compression   *)
(* comparison server (src/index.ts): the four /feed/<method> WebSocket     *)
(* routes, the encoders and the periodic broadcast tick.                   *)
(*                                                                         *)
(* Text (JSON text, base64 text) is a sequence of one-character strings,   *)
(* a Buffer is a sequence of byte values 0..255.                           *)
(***************************************************************************)
EXTENDS Integers, Sequences, FiniteSets, TLC

\* ------------------------------------------------------------------ bounds
MaxTicks == 2        \* firings of the broadcast timer explored
MaxConns == 3        \* WebSocket connections open at the same time
MaxWriteFails == 1   \* socket writes that fail within one firing
DatasetLen == 2      \* records generated at startup (DATASET_SIZE is 1000)
NoiseDraws == 1      \* distinct outcomes of the generator's random draws
MaxInbound == 1      \* inbound client frames handled
SampleNoise == 2     \* outcomes of a random draw in the datasets given to an encoder
MaxCalls == 2        \* calls made on the topic registry on its own
MaxSockets == 4      \* WebSockets the page creates
MaxMessages == 2     \* messages the page's sockets deliver
MaxAlerts == 1       \* alerts the page shows

\* --------------------------------------------------------------- constants
IntervalMs == 2000
ItemStepMs == 1000

Methods == <<"none", "gzip", "brotli", "zstd">>
MethodSet == {Methods[i] : i \in 1..Len(Methods)}
Codecs == {"gzip", "brotli", "zstd"}
Topics == {"feed-none", "feed-gzip", "feed-brotli", "feed-zstd"}
ConnIds == 1..MaxConns

\* ------------------------------------------------------------- characters
\* printable ASCII, code 32 first (code 96 is written out: the lexer rejects it)
AsciiTable ==
  << " ", "!", "\"", "#", "$", "%", "&", "'", "(", ")", "*", "+", ",", "-", ".", "/",
     "0", "1", "2", "3", "4", "5", "6", "7", "8", "9", ":", ";", "<", "=", ">", "?",
     "@", "A", "B", "C", "D", "E", "F", "G", "H", "I", "J", "K", "L", "M", "N", "O",
     "P", "Q", "R", "S", "T", "U", "V", "W", "X", "Y", "Z", "[", "\\", "]", "^", "_",
     "grave", "a", "b", "c", "d", "e", "f", "g", "h", "i", "j", "k", "l", "m", "n", "o",
     "p", "q", "r", "s", "t", "u", "v", "w", "x", "y", "z", "{", "|", "}", "~" >>

CharSet == {AsciiTable[i] : i \in 1..Len(AsciiTable)}

CharCode == [ch \in CharSet |-> 31 + (CHOOSE i \in 1..Len(AsciiTable) : AsciiTable[i] = ch)]

CharOf(code) == AsciiTable[code - 31]

\* Buffer.from(string): the UTF-8 bytes of the text (one byte per ASCII char)
BufferFrom(str) == [i \in 1..Len(str) |-> CharCode[str[i]]]

\* new TextDecoder().decode(bytes)
TextDecode(bytes) == [i \in 1..Len(bytes) |-> CharOf(bytes[i])]

\* ------------------------------------------------------------------- JSON
DigitChars == <<"0", "1", "2", "3", "4", "5", "6", "7", "8", "9">>

RECURSIVE NumberText(_)
NumberText(n) ==
  IF n < 10 THEN <<DigitChars[n + 1]>>
  ELSE NumberText(n \div 10) \o <<DigitChars[(n % 10) + 1]>>

\* Number.prototype.toFixed(2) of a value held in hundredths
ToFixed2(cents) ==
  NumberText(cents \div 100) \o <<".">>
    \o <<DigitChars[((cents % 100) \div 10) + 1], DigitChars[(cents % 10) + 1]>>

Quoted(chars) == <<"\"">> \o chars \o <<"\"">>

\* property names of a record, in the order JSON.stringify emits them:
\* the generator's own keys, then the keys merged by Object.assign, then
\* the key the tick's spread adds last
KeyOrder == <<"ts", "price", "id", "symbol", "messageId">>

KeyChars ==
  [ts |-> <<"t", "s">>,
   price |-> <<"p", "r", "i", "c", "e">>,
   id |-> <<"i", "d">>,
   symbol |-> <<"s", "y", "m", "b", "o", "l">>,
   messageId |-> <<"m", "e", "s", "s", "a", "g", "e", "I", "d">>]

NumericKeys == {"ts", "id", "messageId"}

ValueText(k, v) == IF k \in NumericKeys THEN NumberText(v) ELSE Quoted(v)

RECURSIVE MembersText(_, _, _)
MembersText(item, i, first) ==
  IF i > Len(KeyOrder) THEN <<>>
  ELSE LET k == KeyOrder[i] IN
       IF k \in DOMAIN item
       THEN (IF first THEN <<>> ELSE <<",">>)
              \o Quoted(KeyChars[k]) \o <<":">> \o ValueText(k, item[k])
              \o MembersText(item, i + 1, FALSE)
       ELSE MembersText(item, i + 1, first)

ItemText(item) == <<"{">> \o MembersText(item, 1, TRUE) \o <<"}">>

RECURSIVE ItemsText(_, _)
ItemsText(data, i) ==
  IF i > Len(data) THEN <<>>
  ELSE (IF i = 1 THEN <<>> ELSE <<",">>) \o ItemText(data[i]) \o ItemsText(data, i + 1)

\* JSON.stringify of an array of records
JSONstringify(data) == <<"[">> \o ItemsText(data, 1) \o <<"]">>


\* JSON.parse of the text of an array of flat records; SyntaxError for a
\* text that is not a JSON array
SyntaxError == <<[error |-> "SyntaxError"]>>

RECURSIVE QuoteEnd(_, _)
QuoteEnd(s, i) == IF s[i] = "\"" THEN i ELSE QuoteEnd(s, i + 1)

IsDigit(ch) == \E d \in 1..10 : DigitChars[d] = ch

DigitValue(ch) == (CHOOSE d \in 1..10 : DigitChars[d] = ch) - 1

RECURSIVE ParseNumber(_, _, _)
ParseNumber(s, i, acc) ==
  IF i <= Len(s) /\ IsDigit(s[i])
  THEN ParseNumber(s, i + 1, acc * 10 + DigitValue(s[i]))
  ELSE [val |-> acc, next |-> i]

\* s[i] is the opening quote
ParseString(s, i) ==
  LET j == QuoteEnd(s, i + 1) IN [val |-> SubSeq(s, i + 1, j - 1), next |-> j + 1]

ParseValue(s, i) == IF s[i] = "\"" THEN ParseString(s, i) ELSE ParseNumber(s, i, 0)

KeyNamed(chars) == CHOOSE k \in DOMAIN KeyChars : KeyChars[k] = chars

\* s[i] is the opening quote of the next member's key
RECURSIVE ParseMembers(_, _, _)
ParseMembers(s, i, acc) ==
  LET key == ParseString(s, i)
      v == ParseValue(s, key.next + 1)
      obj == (KeyNamed(key.val) :> v.val) @@ acc
  IN IF s[v.next] = "," THEN ParseMembers(s, v.next + 1, obj)
     ELSE [val |-> obj, next |-> v.next + 1]

\* s[i] is the opening brace of the next element
RECURSIVE ParseItems(_, _, _)
ParseItems(s, i, acc) ==
  LET item == IF s[i + 1] = "}" THEN [val |-> <<>>, next |-> i + 2]
              ELSE ParseMembers(s, i + 1, <<>>)
      arr == Append(acc, item.val)
  IN IF s[item.next] = "," THEN ParseItems(s, item.next + 1, arr) ELSE arr

JSONparse(s) ==
  IF Len(s) < 2 \/ s[1] # "[" THEN SyntaxError
  ELSE IF s[2] = "]" THEN <<>>
  ELSE ParseItems(s, 2, <<>>)

\* ----------------------------------------------------------------- base64
B64Alphabet ==
  << "A", "B", "C", "D", "E", "F", "G", "H", "I", "J", "K", "L", "M", "N", "O", "P",
     "Q", "R", "S", "T", "U", "V", "W", "X", "Y", "Z", "a", "b", "c", "d", "e", "f",
     "g", "h", "i", "j", "k", "l", "m", "n", "o", "p", "q", "r", "s", "t", "u", "v",
     "w", "x", "y", "z", "0", "1", "2", "3", "4", "5", "6", "7", "8", "9", "+", "/" >>

B64Chars == {B64Alphabet[i] : i \in 1..64}

B64Value == [ch \in B64Chars |-> (CHOOSE i \in 1..64 : B64Alphabet[i] = ch) - 1]

\* the 4 characters of one group of 1, 2 or 3 bytes
B64Group(g) ==
  LET n == Len(g)
      b1 == g[1]
      b2 == IF n >= 2 THEN g[2] ELSE 0
      b3 == IF n >= 3 THEN g[3] ELSE 0
  IN << B64Alphabet[(b1 \div 4) + 1],
        B64Alphabet[((b1 % 4) * 16 + (b2 \div 16)) + 1],
        IF n >= 2 THEN B64Alphabet[((b2 % 16) * 4 + (b3 \div 64)) + 1] ELSE "=",
        IF n >= 3 THEN B64Alphabet[(b3 % 64) + 1] ELSE "=" >>

\* buffer.toString("base64")
RECURSIVE ToBase64(_)
ToBase64(bytes) ==
  IF Len(bytes) = 0 THEN <<>>
  ELSE IF Len(bytes) <= 3 THEN B64Group(bytes)
  ELSE B64Group(SubSeq(bytes, 1, 3)) \o ToBase64(SubSeq(bytes, 4, Len(bytes)))


\* atob throws on a text that is not base64; no byte is negative
InvalidCharacterError == <<-2>>

B64GroupBytes(q) ==
  LET v1 == B64Value[q[1]]
      v2 == B64Value[q[2]]
      v3 == IF q[3] = "=" THEN 0 ELSE B64Value[q[3]]
      v4 == IF q[4] = "=" THEN 0 ELSE B64Value[q[4]]
      b1 == v1 * 4 + (v2 \div 16)
      b2 == (v2 % 16) * 16 + (v3 \div 4)
      b3 == (v3 % 4) * 64 + v4
  IN IF q[3] = "=" THEN <<b1>> ELSE IF q[4] = "=" THEN <<b1, b2>> ELSE <<b1, b2, b3>>

RECURSIVE AtobGroups(_)
AtobGroups(text) ==
  IF Len(text) = 0 THEN <<>>
  ELSE B64GroupBytes(SubSeq(text, 1, 4)) \o AtobGroups(SubSeq(text, 5, Len(text)))

\* Uint8Array.from(atob(message), c => c.charCodeAt(0))
Atob(text) ==
  IF Len(text) % 4 # 0 \/ \E i \in 1..Len(text) : text[i] \notin B64Chars \cup {"="}
  THEN InvalidCharacterError
  ELSE AtobGroups(text)

\* ------------------------------------------------------------------ codecs
\* The compression libraries are opaque: each is modelled by its container
\* around a stored (uncompressed) block, which is a legal output of the
\* format, so that sizes and round trips are computed from real bytes.
\* a decompressor throws on bytes that are not its format
DataError == <<-1>>
DecodeFailed == <<"DecodeFailed">>

GzipMagic == <<31, 139, 8>>
ZstdMagic == <<40, 181, 47, 253>>
BrotliHead == <<91>>
BrotliTail == <<3>>

\* zlib.gzipSync(buffer): magic and method, stored block, ISIZE (low byte)
gzipSync(buf) == GzipMagic \o buf \o <<Len(buf) % 256>>

\* zlib.brotliCompressSync(buffer, {params}): window header, block, end marker
brotliCompressSync(buf) == BrotliHead \o buf \o BrotliTail

\* Bun.zstdCompressSync(buffer, {level: 6}): frame magic, block
zstdCompressSync(buf) == ZstdMagic \o buf

HasPrefix(bytes, pre) == Len(bytes) >= Len(pre) /\ SubSeq(bytes, 1, Len(pre)) = pre

\* new DecompressionStream('gzip')
gunzip(bytes) ==
  IF ~HasPrefix(bytes, GzipMagic) \/ Len(bytes) < Len(GzipMagic) + 1
  THEN DataError
  ELSE LET body == SubSeq(bytes, Len(GzipMagic) + 1, Len(bytes) - 1) IN
       IF bytes[Len(bytes)] = Len(body) % 256 THEN body ELSE DataError

\* brotli.decompress(bytes) of the brotli-wasm library
brotliDecompress(bytes) ==
  IF ~HasPrefix(bytes, BrotliHead) \/ Len(bytes) < 2
       \/ <<bytes[Len(bytes)]>> # BrotliTail
  THEN DataError
  ELSE SubSeq(bytes, 2, Len(bytes) - 1)

\* zstd.decompress(bytes) of the zstd wasm library
zstdDecompress(bytes) ==
  IF ~HasPrefix(bytes, ZstdMagic) THEN DataError
  ELSE SubSeq(bytes, Len(ZstdMagic) + 1, Len(bytes))

\* ---------------------------------------------------------------- encoders
\* an encoder's result when it returns null, and when its exception escapes
Null == [null |-> TRUE]
Thrown == [thrown |-> TRUE]

\* faulty variant of compressWithGzip: the uncompressed buffer is the one
\* turned into base64
compressWithGzip_WrongBuffer(data, codecThrows) ==
  LET jsonString == JSONstringify(data)
      originalBuffer == BufferFrom(jsonString)
  IN IF codecThrows THEN Thrown
     ELSE LET compressedBuffer == gzipSync(originalBuffer) IN
          [compressed |-> ToBase64(originalBuffer),
           originalSize |-> Len(originalBuffer),
           compressedSize |-> Len(compressedBuffer)]

\* compressWithGzip(data); the codec call is not guarded
compressWithGzip(data, codecThrows) ==
  LET jsonString == JSONstringify(data)
      originalBuffer == BufferFrom(jsonString)
  IN IF codecThrows THEN Thrown
     ELSE LET compressedBuffer == gzipSync(originalBuffer) IN
          [compressed |-> ToBase64(compressedBuffer),
           originalSize |-> Len(originalBuffer),
           compressedSize |-> Len(compressedBuffer)]

\* compressWithBrotli(data): try { ... } catch { return null }
compressWithBrotli(data, codecThrows) ==
  LET jsonString == JSONstringify(data)
      originalBuffer == BufferFrom(jsonString)
  IN IF codecThrows THEN Null
     ELSE LET compressedBuffer == brotliCompressSync(originalBuffer) IN
          [compressed |-> ToBase64(compressedBuffer),
           originalSize |-> Len(originalBuffer),
           compressedSize |-> Len(compressedBuffer)]

\* faulty variant of compressWithZstd: originalSize is taken from the
\* compressed buffer
compressWithZstd_SizeSwapped(data, codecThrows) ==
  LET jsonString == JSONstringify(data)
      originalBuffer == BufferFrom(jsonString)
  IN IF codecThrows THEN Null
     ELSE LET compressedBuffer == zstdCompressSync(originalBuffer) IN
          [compressed |-> ToBase64(compressedBuffer),
           originalSize |-> Len(compressedBuffer),
           compressedSize |-> Len(compressedBuffer)]

\* compressWithZstd(data): try { ... } catch { return null }
compressWithZstd(data, codecThrows) ==
  LET jsonString == JSONstringify(data)
      originalBuffer == BufferFrom(jsonString)
  IN IF codecThrows THEN Null
     ELSE LET compressedBuffer == zstdCompressSync(originalBuffer) IN
          [compressed |-> ToBase64(compressedBuffer),
           originalSize |-> Len(originalBuffer),
           compressedSize |-> Len(compressedBuffer)]

\* faulty variant of noCompression: the JSON text is sent as base64
noCompression_Base64(data) ==
  LET jsonString == JSONstringify(data)
      size == Len(BufferFrom(jsonString))
  IN [compressed |-> ToBase64(BufferFrom(jsonString)),
      originalSize |-> size, compressedSize |-> size]

\* faulty variant of noCompression: compressedSize is the number of records
noCompression_RecordCount(data) ==
  LET jsonString == JSONstringify(data)
      size == Len(BufferFrom(jsonString))
  IN [compressed |-> jsonString, originalSize |-> size, compressedSize |-> Len(data)]

\* noCompression(data): the JSON text itself, no codec involved
noCompression(data) ==
  LET jsonString == JSONstringify(data)
      size == Len(BufferFrom(jsonString))
  IN [compressed |-> jsonString, originalSize |-> size, compressedSize |-> size]

\* the text the page's onmessage handler recovers from a frame received on
\* the socket of the given type, with the decompression libraries loaded
originalJsonString(type, message) ==
  CASE type = "none" -> message
    [] type = "gzip" ->
         LET out == gunzip(Atob(message)) IN
         IF out = DataError THEN DecodeFailed ELSE TextDecode(out)
    [] type = "brotli" ->
         LET out == brotliDecompress(Atob(message)) IN
         IF out = DataError THEN DecodeFailed ELSE TextDecode(out)
    [] type = "zstd" ->
         LET out == zstdDecompress(Atob(message)) IN
         IF out = DataError THEN DecodeFailed ELSE TextDecode(out)

decodedDataset(type, message) ==
  LET txt == originalJsonString(type, message) IN
  IF txt = DecodeFailed THEN SyntaxError ELSE JSONparse(txt)


\* --------------------------------------------------------------- generator
symbols ==
  << <<"B", "T", "C", "/", "U", "S", "D">>, <<"E", "T", "H", "/", "U", "S", "D">>,
     <<"A", "D", "A", "/", "U", "S", "D">>, <<"D", "O", "T", "/", "U", "S", "D">>,
     <<"S", "O", "L", "/", "U", "S", "D">>, <<"A", "V", "A", "X", "/", "U", "S", "D">>,
     <<"M", "A", "T", "I", "C", "/", "U", "S", "D">>, <<"L", "I", "N", "K", "/", "U", "S", "D">> >>

\* basePrice of item i (0-based) in hundredths; the sine term is taken at
\* the amplitude's scale only (it is below one unit for the first items)
basePriceCents(i) ==
  LET symbol == symbols[(i % Len(symbols)) + 1] IN
  IF SubSeq(symbol, 1, 3) = <<"B", "T", "C">> THEN 4500000 + 50 * i
  ELSE IF SubSeq(symbol, 1, 3) = <<"E", "T", "H">> THEN 300000 + 6 * i
  ELSE IF SubSeq(symbol, 1, 3) = <<"S", "O", "L">> THEN 10000 + i
  ELSE 5000 + i

\* generateLargePriceDataset(count); noise[i] is the outcome of item i's
\* Math.random() draws. Of the 19 properties of an item the model keeps
\* ts, price, id and symbol.
generateLargePriceDataset(count, baseTime, noise) ==
  [k \in 1..count |->
     LET i == k - 1 IN
     [ts |-> baseTime + i * ItemStepMs,
      price |-> ToFixed2(basePriceCents(i) + noise[k]),
      id |-> i + 1,
      symbol |-> symbols[(i % Len(symbols)) + 1]]]

\* the datasets the generator can return, the snapshots the timer can
\* take of them, and every encoder's result for each snapshot, computed once
\* (one outcome of the random draws is applied to every item of a dataset)
NoiseSet == {[k \in 1..DatasetLen |-> d] : d \in 0..(NoiseDraws - 1)}

\* faulty variant of the snapshot: the records come out in reverse order
Snapshot_Reversed(dataset, clock, counter) ==
  [k \in 1..Len(dataset) |->
     [f \in (DOMAIN dataset[k]) \cup {"ts", "messageId"} |->
        IF f = "ts" THEN clock
        ELSE IF f = "messageId" THEN counter
        ELSE dataset[Len(dataset) + 1 - k][f]]]

\* faulty variant of the snapshot: messageId is the map callback's index
Snapshot_IndexId(dataset, clock, counter) ==
  [k \in 1..Len(dataset) |->
     [f \in (DOMAIN dataset[k]) \cup {"ts", "messageId"} |->
        IF f = "ts" THEN clock
        ELSE IF f = "messageId" THEN k - 1
        ELSE dataset[k][f]]]

\* largePriceDataset.map(item => ({...item, ts: Date.now(), messageId: messageCounter}))
\* (the clock reads of one firing fall within the same millisecond)
Snapshot(dataset, clock, counter) ==
  [k \in 1..Len(dataset) |->
     [f \in (DOMAIN dataset[k]) \cup {"ts", "messageId"} |->
        IF f = "ts" THEN clock
        ELSE IF f = "messageId" THEN counter
        ELSE dataset[k][f]]]

\* faulty variant of the map: the records are refreshed in place
SourceAfterMap_InPlace(dataset, snapshot) == snapshot

\* the array map was called on, after the call: map returns a new array and
\* the callback builds a new object per item, so the source is as before
SourceAfterMap(dataset, snapshot) == dataset

Snapshots ==
  {Snapshot(generateLargePriceDataset(DatasetLen, 0, noise), k * IntervalMs, k) :
     noise \in NoiseSet, k \in 1..MaxTicks}

\* a function built pointwise once, instead of computed at each application
Tabulated(f) == f @@ <<>>

EncodeCache ==
  Tabulated([d \in Snapshots |->
               [none |-> noCompression(d),
                gzip |-> compressWithGzip(d, FALSE),
                brotli |-> compressWithBrotli(d, FALSE),
                zstd |-> compressWithZstd(d, FALSE)]])

\* the encoder of a method applied to a snapshot
Encode(method, data, codecThrows) ==
  IF ~codecThrows /\ data \in Snapshots THEN EncodeCache[data][method]
  ELSE CASE method = "none" -> noCompression(data)
         [] method = "gzip" -> compressWithGzip(data, codecThrows)
         [] method = "brotli" -> compressWithBrotli(data, codecThrows)
         [] method = "zstd" -> compressWithZstd(data, codecThrows)

\* ------------------------------------------------------------------- state
VARIABLES
  largePriceDataset,  \* the dataset generated at startup
  messageCounter,     \* let messageCounter
  subscribers,        \* topic -> connections subscribed (the server's registry)
  connState,          \* connection -> "free" | "open"
  connPath,           \* connection -> method of the route it was accepted on
  inbox,              \* connection -> frames written to its socket, in order
  now,                \* the clock read by Date.now()
  running,            \* the process is alive (timer armed)
  listening,          \* the server has not been stopped (app.stop() not called)
  ticks,              \* firings of the timer so far (history)
  inbound,            \* inbound client frames handled so far (history)
  lastTick,           \* what the latest firing did (history)
  sample,             \* the data passed to the encoders called on their own
  encoded,            \* method -> what its encoder returned for the sample
  registryLog,        \* the calls made on the topic registry on its own (history)
  others,             \* connection -> the subscriber sets as the open and close
                      \* handlers of the other connections alone have made them (history)
  selectedTypes,      \* the page: the options selected in compressionSelect
  connections,        \* the page: type -> its socket (an index of sockets) or null
  sockets,            \* the page: the WebSockets created, with their readyState
  stats,              \* the page: type -> statistics of the messages processed
  pending,            \* the page: gzip message handlers waiting on reader.read()
  startTime,          \* the page: let startTime
  uptimeInterval,     \* the page: let uptimeInterval (a timer id or null)
  timers,             \* the page: the interval timers that are active
  timerCount,         \* the page: setInterval calls so far (the next id)
  startBtnDisabled,   \* the page: startBtn.disabled
  stopBtnDisabled,    \* the page: stopBtn.disabled
  alerts,             \* the page: alerts shown so far (history)
  received            \* the page: message events so far (history)

serverVars == <<largePriceDataset, messageCounter, subscribers, connState, connPath,
                inbox, now, running, listening, ticks, inbound, lastTick, sample, encoded,
                registryLog, others>>

clientVars == <<selectedTypes, connections, sockets, stats, pending, startTime,
                uptimeInterval, timers, timerCount, startBtnDisabled, stopBtnDisabled,
                alerts, received>>

vars == <<serverVars, clientVars>>

NotRun == [notRun |-> TRUE]

\* the sizes an encoder reported (the history keeps the payload text with
\* the publish call only)
Sizes(result) ==
  IF "compressed" \in DOMAIN result
  THEN [originalSize |-> result.originalSize, compressedSize |-> result.compressedSize]
  ELSE result
NoPath == "-"

\* topic named in each route's open handler, close handler, and in the
\* tick's publish call of each method
\* faulty variant of the open handlers: the brotli route subscribes to the
\* zstd topic
OpenTopic_Swapped ==
  [none |-> "feed-none", gzip |-> "feed-gzip", brotli |-> "feed-zstd", zstd |-> "feed-zstd"]

OpenTopic ==
  [none |-> "feed-none", gzip |-> "feed-gzip", brotli |-> "feed-brotli", zstd |-> "feed-zstd"]

\* faulty variant of the close handlers: the gzip route unsubscribes from
\* the none topic
CloseTopic_Swapped ==
  [none |-> "feed-none", gzip |-> "feed-none", brotli |-> "feed-brotli", zstd |-> "feed-zstd"]

CloseTopic ==
  [none |-> "feed-none", gzip |-> "feed-gzip", brotli |-> "feed-brotli", zstd |-> "feed-zstd"]

PublishTopic ==
  [none |-> "feed-none", gzip |-> "feed-gzip", brotli |-> "feed-brotli", zstd |-> "feed-zstd"]

ServerInitOn(conns) ==
  /\ \E noise \in NoiseSet :
       largePriceDataset = generateLargePriceDataset(DatasetLen, 0, noise)
  /\ messageCounter = 0
  /\ subscribers = [t \in Topics |-> {}]
  /\ connState = [c \in conns |-> "free"]
  /\ connPath = [c \in conns |-> NoPath]
  /\ inbox = [c \in conns |-> <<>>]
  /\ now = 0
  /\ running = TRUE
  /\ listening = TRUE
  /\ ticks = 0
  /\ inbound = 0
  /\ others = [c \in conns |-> [t \in Topics |-> {}]]
  /\ lastTick = [results |-> [m \in MethodSet |-> NotRun], calls |-> <<>>,
                 threw |-> {}, writeFails |-> {}, failedBefore |-> {},
                 afterClose |-> FALSE, idle |-> FALSE]

\* the page as its script leaves it: every option of compressionSelect is
\* selected, nothing is connected, Stop is disabled
NullRef == 0

EmptyStat ==
  [messages |-> 0, totalBytes |-> 0, totalOriginalBytes |-> 0,
   sizes |-> <<>>, decompressionTimes |-> <<>>]

ClientInit ==
  /\ selectedTypes = MethodSet
  /\ connections = [t \in MethodSet |-> NullRef]
  /\ sockets = <<>>
  /\ stats = [t \in MethodSet |-> EmptyStat]
  /\ pending = <<>>
  /\ startTime = NullRef
  /\ uptimeInterval = NullRef
  /\ timers = {}
  /\ timerCount = 0
  /\ startBtnDisabled = FALSE
  /\ stopBtnDisabled = TRUE
  /\ alerts = 0
  /\ received = 0

ServerInit == ServerInitOn(ConnIds)

Init ==
  /\ ServerInit
  /\ ClientInit
  /\ sample = <<>>
  /\ encoded = [m \in MethodSet |-> NotRun]
  /\ registryLog = <<>>

\* the history of what the handlers of the connections other than each
\* connection have done to the subscriber sets, after connection d has
\* subscribed to (joins) or unsubscribed from the topic
OthersAfter(d, topic, joins) ==
  [c \in DOMAIN others |->
     IF c = d THEN others[c]
     ELSE [others[c] EXCEPT ![topic] = IF joins THEN @ \cup {d} ELSE @ \ {d}]]

\* faulty variant of open: the payload of the latest firing is kept and
\* sent to a connection when it subscribes
Open_Replay(c, method) ==
  /\ running
  /\ listening
  /\ connState[c] = "free"
  /\ \A d \in DOMAIN connState : d < c => connState[d] # "free"
  /\ connState' = [connState EXCEPT ![c] = "open"]
  /\ connPath' = [connPath EXCEPT ![c] = method]
  /\ subscribers' = [subscribers EXCEPT ![OpenTopic[method]] = @ \cup {c}]
  /\ others' = OthersAfter(c, OpenTopic[method], TRUE)
  /\ inbox' = [inbox EXCEPT ![c] =
                 LET kept == {i \in 1..Len(lastTick.calls) :
                                lastTick.calls[i].topic = OpenTopic[method]}
                 IN IF kept = {} THEN <<>>
                    ELSE <<[tick |-> ticks,
                            text |-> lastTick.calls[CHOOSE i \in kept : TRUE].text]>>]
  /\ UNCHANGED <<clientVars, sample, encoded, registryLog, largePriceDataset, messageCounter, now, running, listening,
                 ticks, inbound, lastTick>>

\* open(ws) of the route /feed/<method>: ws.subscribe(topic). A connection
\* id is free until accepted and again after its close handler has run.
Open(c, method) ==
  /\ running
  /\ listening
  /\ connState[c] = "free"
  /\ \A d \in DOMAIN connState : d < c => connState[d] # "free"
  /\ connState' = [connState EXCEPT ![c] = "open"]
  /\ connPath' = [connPath EXCEPT ![c] = method]
  /\ subscribers' = [subscribers EXCEPT ![OpenTopic[method]] = @ \cup {c}]
  /\ others' = OthersAfter(c, OpenTopic[method], TRUE)
  /\ UNCHANGED <<clientVars, sample, encoded, registryLog, largePriceDataset, messageCounter, inbox, now, running, listening,
                 ticks, inbound, lastTick>>

\* faulty variant of close: the close handler does not unsubscribe
Close_NoUnsubscribe(c) ==
  /\ running
  /\ connState[c] = "open"
  /\ connState' = [connState EXCEPT ![c] = "free"]
  /\ connPath' = [connPath EXCEPT ![c] = NoPath]
  /\ inbox' = [inbox EXCEPT ![c] = <<>>]
  /\ lastTick' = [lastTick EXCEPT !.writeFails = @ \ {c}]
  /\ others' = OthersAfter(c, CloseTopic[connPath[c]], FALSE)
  /\ UNCHANGED <<clientVars, sample, encoded, registryLog, subscribers, largePriceDataset, messageCounter,
                 now, running, listening, ticks, inbound>>

\* close(ws) of the connection's route: ws.unsubscribe(topic); the socket
\* and what was written to it are gone with the connection, and the
\* history keeps the failed writes of open connections only
Close(c) ==
  /\ running
  /\ connState[c] = "open"
  /\ connState' = [connState EXCEPT ![c] = "free"]
  /\ connPath' = [connPath EXCEPT ![c] = NoPath]
  /\ subscribers' = [subscribers EXCEPT ![CloseTopic[connPath[c]]] = @ \ {c}]
  /\ inbox' = [inbox EXCEPT ![c] = <<>>]
  /\ lastTick' = [lastTick EXCEPT !.writeFails = @ \ {c}]
  /\ others' = OthersAfter(c, CloseTopic[connPath[c]], FALSE)
  /\ UNCHANGED <<clientVars, sample, encoded, registryLog, largePriceDataset, messageCounter, now, running, listening, ticks,
                 inbound>>

\* faulty variant of the publish calls: a publish to a topic nobody is
\* subscribed to throws, and the calls after it are not made
PublishCalls_StopAtEmpty(noneResult, gzipResult, brotliResult, zstdResult) ==
  LET c1 == IF noneResult # Null
            THEN <<[topic |-> PublishTopic["none"], text |-> noneResult.compressed]>>
            ELSE <<>>
      c2 == IF gzipResult # Null
            THEN <<[topic |-> PublishTopic["gzip"], text |-> gzipResult.compressed]>>
            ELSE <<>>
      c3 == IF brotliResult # Null
            THEN <<[topic |-> PublishTopic["brotli"], text |-> brotliResult.compressed]>>
            ELSE <<>>
      c4 == IF zstdResult # Null
            THEN <<[topic |-> PublishTopic["zstd"], text |-> zstdResult.compressed]>>
            ELSE <<>>
      all == IF gzipResult = Thrown THEN c1 ELSE c1 \o c2 \o c3 \o c4
      empty == {i \in 1..Len(all) : subscribers[all[i].topic] = {}}
  IN IF empty = {} THEN all
     ELSE SubSeq(all, 1, CHOOSE i \in empty : \A j \in empty : i <= j)

\* faulty variant of the publish calls: the brotli payload is published to
\* the gzip topic
PublishCalls_WrongTopic(noneResult, gzipResult, brotliResult, zstdResult) ==
  LET c1 == IF noneResult # Null
            THEN <<[topic |-> PublishTopic["none"], text |-> noneResult.compressed]>>
            ELSE <<>>
      c2 == IF gzipResult # Null
            THEN <<[topic |-> PublishTopic["gzip"], text |-> gzipResult.compressed]>>
            ELSE <<>>
      c3 == IF brotliResult # Null
            THEN <<[topic |-> PublishTopic["gzip"], text |-> brotliResult.compressed]>>
            ELSE <<>>
      c4 == IF zstdResult # Null
            THEN <<[topic |-> PublishTopic["zstd"], text |-> zstdResult.compressed]>>
            ELSE <<>>
  IN IF gzipResult = Thrown THEN c1 ELSE c1 \o c2 \o c3 \o c4

\* faulty variant of the publish calls: the none payload is published twice
PublishCalls_NoneTwice(noneResult, gzipResult, brotliResult, zstdResult) ==
  LET c1 == IF noneResult # Null
            THEN <<[topic |-> PublishTopic["none"], text |-> noneResult.compressed],
                   [topic |-> PublishTopic["none"], text |-> noneResult.compressed]>>
            ELSE <<>>
      c2 == IF gzipResult # Null
            THEN <<[topic |-> PublishTopic["gzip"], text |-> gzipResult.compressed]>>
            ELSE <<>>
      c3 == IF brotliResult # Null
            THEN <<[topic |-> PublishTopic["brotli"], text |-> brotliResult.compressed]>>
            ELSE <<>>
      c4 == IF zstdResult # Null
            THEN <<[topic |-> PublishTopic["zstd"], text |-> zstdResult.compressed]>>
            ELSE <<>>
  IN IF gzipResult = Thrown THEN c1 ELSE c1 \o c2 \o c3 \o c4

\* faulty variant of the publish calls: a method is published only when
\* its topic has a subscriber
PublishCalls_Gated(noneResult, gzipResult, brotliResult, zstdResult) ==
  LET c1 == IF noneResult # Null /\ subscribers[PublishTopic["none"]] # {}
            THEN <<[topic |-> PublishTopic["none"], text |-> noneResult.compressed]>>
            ELSE <<>>
      c2 == IF gzipResult # Null /\ subscribers[PublishTopic["gzip"]] # {}
            THEN <<[topic |-> PublishTopic["gzip"], text |-> gzipResult.compressed]>>
            ELSE <<>>
      c3 == IF brotliResult # Null /\ subscribers[PublishTopic["brotli"]] # {}
            THEN <<[topic |-> PublishTopic["brotli"], text |-> brotliResult.compressed]>>
            ELSE <<>>
      c4 == IF zstdResult # Null /\ subscribers[PublishTopic["zstd"]] # {}
            THEN <<[topic |-> PublishTopic["zstd"], text |-> zstdResult.compressed]>>
            ELSE <<>>
  IN IF gzipResult = Thrown THEN c1 ELSE c1 \o c2 \o c3 \o c4

\* the publish calls of one firing, in the order made: a method whose
\* result is null is skipped, an exception ends the callback
PublishCalls(noneResult, gzipResult, brotliResult, zstdResult) ==
  LET c1 == IF noneResult # Null
            THEN <<[topic |-> PublishTopic["none"], text |-> noneResult.compressed]>>
            ELSE <<>>
      c2 == IF gzipResult # Null
            THEN <<[topic |-> PublishTopic["gzip"], text |-> gzipResult.compressed]>>
            ELSE <<>>
      c3 == IF brotliResult # Null
            THEN <<[topic |-> PublishTopic["brotli"], text |-> brotliResult.compressed]>>
            ELSE <<>>
      c4 == IF zstdResult # Null
            THEN <<[topic |-> PublishTopic["zstd"], text |-> zstdResult.compressed]>>
            ELSE <<>>
  IN IF gzipResult = Thrown THEN c1 ELSE c1 \o c2 \o c3 \o c4

\* faulty variant of publish: a new frame goes in front of the frames
\* already written to the socket
ServerPublish_Prepend(boxes, subs, call, writeFails, n) ==
  [c \in DOMAIN boxes |->
     IF c \in subs[call.topic] /\ c \notin writeFails
     THEN <<[tick |-> n, text |-> call.text]>> \o boxes[c]
     ELSE boxes[c]]

\* faulty variant of publish: the first write that fails ends the delivery
\* to the subscribers after it
ServerPublish_AbortOnFail(boxes, subs, call, writeFails, n) ==
  [c \in DOMAIN boxes |->
     IF c \in subs[call.topic] /\ ~\E w \in writeFails \cap subs[call.topic] : w <= c
     THEN Append(boxes[c], [tick |-> n, text |-> call.text])
     ELSE boxes[c]]

\* app.server.publish(topic, text): the text is written to the socket of
\* every connection subscribed to the topic; a write that fails delivers
\* nothing to that connection and is not reported to the caller
ServerPublish(boxes, subs, call, writeFails, n) ==
  [c \in DOMAIN boxes |->
     IF c \in subs[call.topic] /\ c \notin writeFails
     THEN Append(boxes[c], [tick |-> n, text |-> call.text])
     ELSE boxes[c]]

RECURSIVE PublishAll(_, _, _, _, _, _)
PublishAll(boxes, subs, calls, i, writeFails, n) ==
  IF i > Len(calls) THEN boxes
  ELSE PublishAll(ServerPublish(boxes, subs, calls[i], writeFails, n),
                  subs, calls, i + 1, writeFails, n)

Subscribed == UNION {subscribers[t] : t \in Topics}

\* faulty variant of the increment: the counter wraps around after 1
Incremented_Wrapping(counter) == (counter + 1) % 2

\* messageCounter++, the first statement of the callback
Incremented(counter) == counter + 1

\* the outcomes of one firing that differ: once gzip has thrown the other
\* codecs are not called, and only an uncaught exception can end the process
ThrowSets == {S \in SUBSET Codecs : "gzip" \in S => S = {"gzip"}}

\* the setInterval callback. codecThrows: the codecs that throw in this
\* firing; writeFails: the connections whose socket write fails in it;
\* exits: whether the runtime ends the process on the uncaught exception
Tick ==
  /\ running
  /\ ticks < MaxTicks
  /\ LET counter == Incremented(messageCounter)
         clock == now + IntervalMs
         currentDataset == Snapshot(largePriceDataset, clock, counter)
         noneResult == Encode("none", currentDataset, FALSE)
         gzipOk == Encode("gzip", currentDataset, FALSE)
         brotliOk == Encode("brotli", currentDataset, FALSE)
         zstdOk == Encode("zstd", currentDataset, FALSE)
     IN \E codecThrows \in ThrowSets,
           writeFails \in {W \in SUBSET Subscribed : Cardinality(W) <= MaxWriteFails},
           exits \in BOOLEAN :
          LET gzipResult == IF "gzip" \in codecThrows
                            THEN Encode("gzip", currentDataset, TRUE) ELSE gzipOk
              uncaught == gzipResult = Thrown
              brotliResult == IF uncaught THEN NotRun
                              ELSE IF "brotli" \in codecThrows
                              THEN Encode("brotli", currentDataset, TRUE) ELSE brotliOk
              zstdResult == IF uncaught THEN NotRun
                            ELSE IF "zstd" \in codecThrows
                            THEN Encode("zstd", currentDataset, TRUE) ELSE zstdOk
              calls == PublishCalls(noneResult, gzipResult, brotliResult, zstdResult)
              hit == {c \in writeFails :
                        \E i \in 1..Len(calls) : c \in subscribers[calls[i].topic]}
          IN /\ (exits => uncaught)
             /\ messageCounter' = counter
             /\ now' = clock
             /\ ticks' = ticks + 1
             /\ inbox' = PublishAll(inbox, subscribers, calls, 1, writeFails, ticks + 1)
             /\ running' = ~exits
             /\ lastTick' = [results |-> [m \in MethodSet |->
                                            CASE m = "none" -> Sizes(noneResult)
                                              [] m = "gzip" -> Sizes(gzipResult)
                                              [] m = "brotli" -> Sizes(brotliResult)
                                              [] m = "zstd" -> Sizes(zstdResult)],
                             calls |-> calls,
                             threw |-> codecThrows,
                             writeFails |-> hit,
                             failedBefore |-> lastTick.writeFails \cap Subscribed,
                             afterClose |-> \E c, d \in DOMAIN connState :
                                              /\ c < d
                                              /\ connState[c] = "free"
                                              /\ connState[d] = "open",
                             idle |-> Subscribed = {}]
  /\ largePriceDataset' =
       SourceAfterMap(largePriceDataset,
                      Snapshot(largePriceDataset, now + IntervalMs,
                               Incremented(messageCounter)))
  /\ UNCHANGED <<clientVars, sample, encoded, registryLog, others, subscribers, connState, connPath, listening, inbound>>

Next ==
  \/ \E c \in ConnIds, method \in MethodSet : Open(c, method)
  \/ \E c \in ConnIds : Close(c)
  \/ Tick

Spec == Init /\ [][Next]_vars

\* app.stop(closeActiveConnections): the listener is closed; the open
\* sockets are closed (their close handlers run) only when asked for. The
\* handle setInterval returned is not kept, so the timer stays armed, and
\* the callback reaches the server through app.server as before.
Stop(closeActiveConnections) ==
  /\ running
  /\ listening
  /\ listening' = FALSE
  /\ IF closeActiveConnections
     THEN /\ connState' = [c \in ConnIds |-> "free"]
          /\ connPath' = [c \in ConnIds |-> NoPath]
          /\ subscribers' =
               [t \in Topics |->
                  subscribers[t] \ {c \in ConnIds : connState[c] = "open"
                                                     /\ CloseTopic[connPath[c]] = t}]
          /\ inbox' = [c \in ConnIds |-> <<>>]
          /\ lastTick' = [lastTick EXCEPT !.writeFails = {}]
          /\ others' =
               [c \in ConnIds |->
                  [t \in Topics |->
                     others[c][t] \ {d \in ConnIds : connState[d] = "open"
                                                      /\ CloseTopic[connPath[d]] = t}]]
     ELSE UNCHANGED <<connState, connPath, subscribers, inbox, lastTick, others>>
  /\ UNCHANGED <<clientVars, sample, encoded, registryLog, largePriceDataset, messageCounter, now, running, ticks, inbound>>

NextStop ==
  \/ Next
  \/ \E closeActiveConnections \in BOOLEAN : Stop(closeActiveConnections)

SpecStop == Init /\ [][NextStop]_vars

\* frames a client can send on a feed connection: a text, an empty frame,
\* a text that is not JSON
InboundFrames == {<<"p", "i", "n", "g">>, <<>>, <<"{", "[">>}

\* faulty variant of the message handler: the frame is sent back
Message_Echo(c, message) ==
  /\ running
  /\ connState[c] = "open"
  /\ inbound < MaxInbound
  /\ inbound' = inbound + 1
  /\ inbox' = [inbox EXCEPT ![c] = Append(@, [tick |-> ticks, text |-> message])]
  /\ UNCHANGED <<clientVars, sample, encoded, registryLog, others, largePriceDataset, messageCounter, subscribers, connState, connPath,
                 now, running, listening, ticks, lastTick>>

\* message(ws, message) of a route: the handler's body is empty
Message(c, message) ==
  /\ running
  /\ connState[c] = "open"
  /\ inbound < MaxInbound
  /\ inbound' = inbound + 1
  /\ UNCHANGED <<clientVars, sample, encoded, registryLog, others, largePriceDataset, messageCounter, subscribers, connState, connPath,
                 inbox, now, running, listening, ticks, lastTick>>

NextInbound ==
  \/ Next
  \/ \E c \in ConnIds, message \in InboundFrames : Message(c, message)

SpecInbound == Init /\ [][NextInbound]_vars


\* ------------------------------------------------- the encoders on their own
\* the datasets handed to an encoder: snapshots of generated datasets of
\* every length up to DatasetLen, the random draws taken item by item
SampleNoiseSet(count) == [1..count -> 0..(SampleNoise - 1)]

Samples ==
  {Snapshot(generateLargePriceDataset(count, 0, noise), k * IntervalMs, k) :
     <<count, noise, k>> \in
       {t \in (0..DatasetLen) \X (UNION {SampleNoiseSet(c) : c \in 0..DatasetLen})
                 \X (1..MaxTicks) : t[2] \in SampleNoiseSet(t[1])}}

CodecInit ==
  /\ ServerInit
  /\ sample \in Samples
  /\ encoded = [m \in MethodSet |-> NotRun]
  /\ registryLog = <<>>
  /\ ClientInit

\* one call of a method's encoder on the sample; codecThrows: the codec
\* call inside it throws
EncodeSample(method, codecThrows) ==
  /\ encoded[method] = NotRun
  /\ encoded' = [encoded EXCEPT ![method] = Encode(method, sample, codecThrows)]
  /\ UNCHANGED <<clientVars, largePriceDataset, messageCounter, subscribers, connState, connPath,
                 inbox, now, running, listening, ticks, inbound, lastTick, sample,
                 registryLog, others>>

CodecNext == \E method \in MethodSet, codecThrows \in BOOLEAN : EncodeSample(method, codecThrows)

SpecCodec == CodecInit /\ [][CodecNext]_vars

\* ------------------------------------------------- the connections of one page
\* The page keeps one socket per compression type (connections[type]) and
\* connects them in the order of the types; each is accepted on the route
\* of its type.
PageConns == 1..Len(Methods)

PageSlot(method) == CHOOSE i \in PageConns : Methods[i] = method

PageInit ==
  /\ ServerInitOn(PageConns)
  /\ ClientInit
  /\ sample = <<>>
  /\ encoded = [m \in MethodSet |-> NotRun]
  /\ registryLog = <<>>

PageNext ==
  \/ \E method \in MethodSet : Open(PageSlot(method), method)
  \/ \E c \in PageConns : Close(c)
  \/ Tick

SpecPage == PageInit /\ [][PageNext]_vars

\* ---------------------------------------------------------------- the page
\* The script of the page served at /: its buttons, its sockets and its
\* statistics. A message is what the page sees of it: the length of its
\* text, the byte length of the JSON text it decodes to, the time the
\* decoding took, and whether the decoding throws.
Messages ==
  [length : {4, 8}, originalSize : {9}, decompressionTime : {1}, throws : BOOLEAN]

Selections == {{}, {"gzip"}, MethodSet}

\* the selected options in the order of the select element
SelectedSeq(selected) ==
  LET IsSelected(m) == m \in selected IN SelectSeq(Methods, IsSelected)

\* compressedSize in ws.onmessage
ClientCompressedSize(type, length, originalSize) ==
  IF type = "none" THEN originalSize ELSE (length * 3 + 3) \div 4

\* faulty variant of the statistics update: the size is added to the total
\* but not kept in sizes
StatAfterMessage_NoPush(stat, type, message) ==
  LET originalSize == message.originalSize
      compressedSize == ClientCompressedSize(type, message.length, originalSize)
  IN [messages |-> stat.messages + 1,
      totalBytes |-> stat.totalBytes + compressedSize,
      totalOriginalBytes |-> stat.totalOriginalBytes + originalSize,
      sizes |-> stat.sizes,
      decompressionTimes |-> Append(stat.decompressionTimes, message.decompressionTime)]

\* the statistics update of ws.onmessage
StatAfterMessage(stat, type, message) ==
  LET originalSize == message.originalSize
      compressedSize == ClientCompressedSize(type, message.length, originalSize)
  IN [messages |-> stat.messages + 1,
      totalBytes |-> stat.totalBytes + compressedSize,
      totalOriginalBytes |-> stat.totalOriginalBytes + originalSize,
      sizes |-> Append(stat.sizes, compressedSize),
      decompressionTimes |-> Append(stat.decompressionTimes, message.decompressionTime)]

\* the change event of compressionSelect
SelectionChange(selected) ==
  /\ selectedTypes' = selected
  /\ UNCHANGED <<serverVars, connections, sockets, stats, pending, startTime,
                 uptimeInterval, timers, timerCount, startBtnDisabled, stopBtnDisabled,
                 alerts, received>>

\* startStreaming, the click handler of startBtn (a disabled button gets
\* no click)
startStreaming ==
  /\ ~startBtnDisabled
  /\ IF selectedTypes = {}
     THEN /\ alerts < MaxAlerts
          /\ alerts' = alerts + 1
          /\ UNCHANGED <<connections, sockets, startTime, uptimeInterval, timers,
                         timerCount, startBtnDisabled, stopBtnDisabled>>
     ELSE LET types == SelectedSeq(selectedTypes) IN
          /\ Len(sockets) + Len(types) <= MaxSockets
          /\ sockets' = sockets \o [i \in 1..Len(types) |->
                                      [type |-> types[i], readyState |-> "CONNECTING"]]
          /\ connections' =
               [t \in MethodSet |->
                  IF t \in selectedTypes
                  THEN Len(sockets) + (CHOOSE i \in 1..Len(types) : types[i] = t)
                  ELSE connections[t]]
          /\ startTime' = 1
          /\ timerCount' = timerCount + 1
          /\ uptimeInterval' = timerCount + 1
          /\ timers' = timers \cup {timerCount + 1}
          /\ startBtnDisabled' = TRUE
          /\ stopBtnDisabled' = FALSE
          /\ UNCHANGED alerts
  /\ UNCHANGED <<serverVars, selectedTypes, stats, pending, received>>

\* faulty variant of stopStreaming: the interval is forgotten, not cleared
stopStreaming_KeepsTimer ==
  /\ ~stopBtnDisabled
  /\ sockets' =
       [s \in DOMAIN sockets |->
          IF (\E t \in MethodSet : connections[t] = s) /\ sockets[s].readyState = "OPEN"
          THEN [sockets[s] EXCEPT !.readyState = "CLOSING"]
          ELSE sockets[s]]
  /\ connections' = [t \in MethodSet |-> NullRef]
  /\ uptimeInterval' = NullRef
  /\ startTime' = NullRef
  /\ startBtnDisabled' = FALSE
  /\ stopBtnDisabled' = TRUE
  /\ UNCHANGED <<serverVars, selectedTypes, stats, pending, timers, timerCount, alerts,
                 received>>

\* stopStreaming, the click handler of stopBtn
stopStreaming ==
  /\ ~stopBtnDisabled
  /\ sockets' =
       [s \in DOMAIN sockets |->
          IF (\E t \in MethodSet : connections[t] = s) /\ sockets[s].readyState = "OPEN"
          THEN [sockets[s] EXCEPT !.readyState = "CLOSING"]
          ELSE sockets[s]]
  /\ connections' = [t \in MethodSet |-> NullRef]
  /\ timers' = IF uptimeInterval # NullRef THEN timers \ {uptimeInterval} ELSE timers
  /\ uptimeInterval' = NullRef
  /\ startTime' = NullRef
  /\ startBtnDisabled' = FALSE
  /\ stopBtnDisabled' = TRUE
  /\ UNCHANGED <<serverVars, selectedTypes, stats, pending, timerCount, alerts, received>>

\* clearData, the click handler of clearBtn
clearData ==
  /\ stats' = [t \in MethodSet |-> EmptyStat]
  /\ UNCHANGED <<serverVars, selectedTypes, connections, sockets, pending, startTime,
                 uptimeInterval, timers, timerCount, startBtnDisabled, stopBtnDisabled,
                 alerts, received>>

\* ws.onopen: the connection is established
onopen(s) ==
  /\ sockets[s].readyState = "CONNECTING"
  /\ sockets' = [sockets EXCEPT ![s].readyState = "OPEN"]
  /\ UNCHANGED <<serverVars, selectedTypes, connections, stats, pending, startTime,
                 uptimeInterval, timers, timerCount, startBtnDisabled, stopBtnDisabled,
                 alerts, received>>

\* ws.onclose: the connection attempt failed, the server or the network
\* closed the connection, or the closing handshake ws.close() began is over
onclose(s) ==
  /\ sockets[s].readyState # "CLOSED"
  /\ sockets' = [sockets EXCEPT ![s].readyState = "CLOSED"]
  /\ connections' = [connections EXCEPT ![sockets[s].type] = NullRef]
  /\ UNCHANGED <<serverVars, selectedTypes, stats, pending, startTime, uptimeInterval,
                 timers, timerCount, startBtnDisabled, stopBtnDisabled, alerts, received>>

\* ws.onmessage up to its first await: the gzip handler waits on the
\* decompression stream, the others run to their end; a handler that
\* throws leaves the statistics alone
onmessage(s, message) ==
  /\ sockets[s].readyState = "OPEN"
  /\ received < MaxMessages
  /\ received' = received + 1
  /\ LET type == sockets[s].type IN
     IF type = "gzip"
     THEN /\ pending' = Append(pending, message)
          /\ UNCHANGED stats
     ELSE /\ stats' = IF message.throws THEN stats
                      ELSE [stats EXCEPT ![type] = StatAfterMessage(@, type, message)]
          /\ UNCHANGED pending
  /\ UNCHANGED <<serverVars, selectedTypes, connections, sockets, startTime,
                 uptimeInterval, timers, timerCount, startBtnDisabled, stopBtnDisabled,
                 alerts>>

\* ws.onmessage of a gzip socket from its await on: the stream has been
\* read (or has failed), and the statistics object is looked up now
onmessageResumed(i) ==
  /\ i \in 1..Len(pending)
  /\ pending' = SubSeq(pending, 1, i - 1) \o SubSeq(pending, i + 1, Len(pending))
  /\ stats' = IF pending[i].throws THEN stats
              ELSE [stats EXCEPT !["gzip"] = StatAfterMessage(@, "gzip", pending[i])]
  /\ UNCHANGED <<serverVars, selectedTypes, connections, sockets, startTime,
                 uptimeInterval, timers, timerCount, startBtnDisabled, stopBtnDisabled,
                 alerts, received>>

ClientNext ==
  \/ \E selected \in Selections : SelectionChange(selected)
  \/ startStreaming
  \/ stopStreaming
  \/ clearData
  \/ \E s \in 1..MaxSockets : s \in DOMAIN sockets /\ onopen(s)
  \/ \E s \in 1..MaxSockets : s \in DOMAIN sockets /\ onclose(s)
  \/ \E s \in 1..MaxSockets, message \in Messages :
       s \in DOMAIN sockets /\ onmessage(s, message)
  \/ \E i \in 1..MaxMessages : onmessageResumed(i)

SpecClient == Init /\ [][ClientNext]_vars

\* the network does its part: a connection attempt that does not fail
\* succeeds, and a closing handshake that was begun completes
SpecClientLive ==
  /\ SpecClient
  /\ \A s \in 1..MaxSockets :
       /\ WF_vars(s \in DOMAIN sockets /\ onopen(s))
       /\ WF_vars(s \in DOMAIN sockets /\ sockets[s].readyState = "CLOSING" /\ onclose(s))

\* ------------------------------------------------ the topic registry on its own
\* The registry behind ws.subscribe, ws.unsubscribe and server.publish is
\* the runtime's; the handlers and the timer only call it. Its operations
\* are taken as documented: a topic holds a set of connections.

\* faulty variant of subscribe: a second subscribe of the same connection
\* to the same topic takes it out of the topic
subscribe_Toggle(subs, c, topic) ==
  [subs EXCEPT ![topic] = IF c \in @ THEN @ \ {c} ELSE @ \cup {c}]

\* ws.subscribe(topic)
subscribe(subs, c, topic) == [subs EXCEPT ![topic] = @ \cup {c}]

\* ws.unsubscribe(topic)
unsubscribe(subs, c, topic) == [subs EXCEPT ![topic] = @ \ {c}]

\* a payload text published by hand: the JSON text of an empty dataset
RegistryPayload == JSONstringify(<<>>)

RegistryCall(op, c, topic, writeFails) ==
  [op |-> op, conn |-> c, topic |-> topic, writeFails |-> writeFails]

Subscribe(c, topic) ==
  /\ running
  /\ connState[c] = "open"
  /\ Len(registryLog) < MaxCalls
  /\ subscribers' = subscribe(subscribers, c, topic)
  /\ registryLog' = Append(registryLog, RegistryCall("subscribe", c, topic, {}))
  /\ UNCHANGED <<clientVars, largePriceDataset, messageCounter, connState, connPath, inbox, now,
                 running, listening, ticks, inbound, lastTick, sample, encoded, others>>

Unsubscribe(c, topic) ==
  /\ running
  /\ connState[c] = "open"
  /\ Len(registryLog) < MaxCalls
  /\ subscribers' = unsubscribe(subscribers, c, topic)
  /\ registryLog' = Append(registryLog, RegistryCall("unsubscribe", c, topic, {}))
  /\ UNCHANGED <<clientVars, largePriceDataset, messageCounter, connState, connPath, inbox, now,
                 running, listening, ticks, inbound, lastTick, sample, encoded, others>>

Publish(topic, writeFails) ==
  /\ running
  /\ Len(registryLog) < MaxCalls
  /\ inbox' = ServerPublish(inbox, subscribers,
                            [topic |-> topic, text |-> RegistryPayload], writeFails, ticks)
  /\ registryLog' = Append(registryLog, RegistryCall("publish", 0, topic, writeFails))
  /\ UNCHANGED <<clientVars, largePriceDataset, messageCounter, subscribers, connState, connPath,
                 now, running, listening, ticks, inbound, lastTick, sample, encoded,
                 others>>

RegistryNext ==
  \/ \E c \in ConnIds, method \in MethodSet : Open(c, method)
  \/ \E c \in ConnIds, topic \in Topics : Subscribe(c, topic)
  \/ \E c \in ConnIds, topic \in Topics : Unsubscribe(c, topic)
  \/ \E topic \in Topics :
       \E writeFails \in {W \in SUBSET subscribers[topic] : Cardinality(W) <= MaxWriteFails} :
         Publish(topic, writeFails)

SpecRegistry == Init /\ [][RegistryNext]_vars

\* ------------------------------------------------------------ claim helpers
\* channel of each method, as the routes are documented (/feed/<method>)
ChannelOf ==
  [none |-> "feed-none", gzip |-> "feed-gzip", brotli |-> "feed-brotli", zstd |-> "feed-zstd"]

\* what the page's decoder of each type makes of each text the encoders
\* can produce, computed once
KnownTexts == {EncodeCache[d][m].compressed : d \in Snapshots, m \in MethodSet}

DecodeCache ==
  Tabulated([p \in MethodSet \X KnownTexts |-> decodedDataset(p[1], p[2])])

Decoded(type, text) ==
  IF text \in KnownTexts THEN DecodeCache[<<type, text>>] ELSE decodedDataset(type, text)

JsonCache ==
  Tabulated([p \in MethodSet \X KnownTexts |-> originalJsonString(p[1], p[2])])

JsonOf(type, text) ==
  IF text \in KnownTexts THEN JsonCache[<<type, text>>] ELSE originalJsonString(type, text)

MethodOfChannel(topic) == CHOOSE m \in MethodSet : ChannelOf[m] = topic

IsDataset(d) == d # SyntaxError /\ Len(d) > 0 /\ \A k \in 1..Len(d) : "messageId" \in DOMAIN d[k]

\* a method's encoder returned a payload in the latest firing
HasResult(tick, m) == "originalSize" \in DOMAIN tick.results[m]

\* the positions, among the latest firing's publish calls, of those to a topic
CallsTo(tick, topic) == {i \in 1..Len(tick.calls) : tick.calls[i].topic = topic}

TickStep == ticks' = ticks + 1


\* the frames a firing writes to connection c: one per publish call to a
\* topic c is subscribed to, in call order, unless c's write fails
FramesFor(c) ==
  LET ToMe(call) == c \in subscribers[call.topic]
      mine == SelectSeq(lastTick'.calls, ToMe)
  IN IF c \in lastTick'.writeFails THEN <<>>
     ELSE [j \in 1..Len(mine) |-> [tick |-> ticks', text |-> mine[j].text]]

LastFrame(c) == inbox[c][Len(inbox[c])]

\* ---------------------------------------------------------------- claims

\* C1 (as stated): on every firing exactly one payload per method is
\* published, to that method's channel, and every connection subscribed to
\* the channel at the publish receives that payload text.
C1_ExactlyOnePerMethod ==
  [][TickStep =>
       /\ Len(lastTick'.calls) = Len(Methods)
       /\ \A m \in MethodSet : Cardinality(CallsTo(lastTick', ChannelOf[m])) = 1
       /\ \A i \in 1..Len(lastTick'.calls) :
            \A c \in subscribers[lastTick'.calls[i].topic] :
              \E j \in (Len(inbox[c]) + 1)..Len(inbox'[c]) :
                inbox'[c][j].text = lastTick'.calls[i].text]_vars

\* C1 (amended): on every firing at most one payload per method is
\* published, only to that method's channel and encoded with that method,
\* exactly one per method when no codec throws; every connection receives
\* exactly the texts published to the channel it is subscribed to, the same
\* text as every other subscriber, unless its own write fails.
C1_AtMostOnePerMethod ==
  [][TickStep =>
       /\ \A i \in 1..Len(lastTick'.calls) :
            /\ \E m \in MethodSet : lastTick'.calls[i].topic = ChannelOf[m]
            /\ IsDataset(Decoded(MethodOfChannel(lastTick'.calls[i].topic),
                                 lastTick'.calls[i].text))
       /\ \A m \in MethodSet : Cardinality(CallsTo(lastTick', ChannelOf[m])) <= 1
       /\ (lastTick'.threw = {} =>
             \A m \in MethodSet : Cardinality(CallsTo(lastTick', ChannelOf[m])) = 1)
       /\ \A c \in ConnIds : inbox'[c] = inbox[c] \o FramesFor(c)]_vars

\* two subscribers of one channel hold the same text of the latest firing,
\* in which all four methods were published
C1_Witness ==
  /\ ticks > 0
  /\ Len(lastTick.calls) = Len(Methods)
  /\ \E c, d \in ConnIds :
       /\ c # d
       /\ connState[c] = "open" /\ connState[d] = "open"
       /\ connPath[c] = connPath[d]
       /\ inbox[c] # <<>> /\ inbox[d] # <<>>
       /\ LastFrame(c).tick = ticks
       /\ LastFrame(c) = LastFrame(d)

\* C2 (as stated): a method is left out of a firing exactly when its own
\* codec threw in it, and the firing as a whole does not fail.
C2_OnlyFailedMethodSkipped ==
  ticks > 0 =>
    /\ running
    /\ \A m \in MethodSet :
         (CallsTo(lastTick, ChannelOf[m]) # {}) <=> (m \notin lastTick.threw)

\* C3 (as stated): after a firing in which a codec threw the server is
\* still running, so the timer fires again.
C3_ServerContinues ==
  (ticks > 0 /\ lastTick.threw # {}) => (running /\ (ticks < MaxTicks => ENABLED Tick))

\* C4: the payloads published in one firing decode to the same JSON text,
\* every record of it carries that firing's messageId, and the encoders
\* that returned a result report the same originalSize.
C4_SameSnapshot ==
  ticks > 0 =>
    /\ \A i, j \in 1..Len(lastTick.calls) :
         LET ci == lastTick.calls[i]
             cj == lastTick.calls[j]
             ti == JsonOf(MethodOfChannel(ci.topic), ci.text)
         IN /\ ti # DecodeFailed
            /\ ti = JsonOf(MethodOfChannel(cj.topic), cj.text)
            /\ LET d == Decoded(MethodOfChannel(ci.topic), ci.text)
               IN /\ IsDataset(d)
                  /\ \A k \in 1..Len(d) : d[k].messageId = messageCounter
    /\ \A m1, m2 \in MethodSet :
         (HasResult(lastTick, m1) /\ HasResult(lastTick, m2)) =>
           lastTick.results[m1].originalSize = lastTick.results[m2].originalSize

\* the second firing published all four methods
C4_Witness == ticks = 2 /\ Len(lastTick.calls) = Len(Methods)

\* C5: the messages a connection has received carry strictly increasing
\* messageIds, and all records of one message carry the same messageId.
C5_MessageIdMonotonic ==
  \A c \in ConnIds :
    \A j \in 1..Len(inbox[c]) :
      LET d == Decoded(connPath[c], inbox[c][j].text) IN
      /\ IsDataset(d)
      /\ \A k \in 1..Len(d) : d[k].messageId = d[1].messageId
      /\ (j > 1 =>
            Decoded(connPath[c], inbox[c][j - 1].text)[1].messageId < d[1].messageId)

\* a connection holds two messages, of messageId 1 and 2
C5_Witness ==
  \E c \in ConnIds :
    /\ Len(inbox[c]) = 2
    /\ Decoded(connPath[c], inbox[c][1].text)[DatasetLen].messageId = 1
    /\ Decoded(connPath[c], inbox[c][2].text)[DatasetLen].messageId = 2

\* C6: the frames written to a connection are in the order of the firings
\* that published them.
C6_TickOrder ==
  \A c \in ConnIds :
    \A j, k \in 1..Len(inbox[c]) : j < k => inbox[c][j].tick < inbox[c][k].tick

\* a connection holds the frames of the first and of the second firing
C6_Witness ==
  \E c \in ConnIds :
    /\ Len(inbox[c]) = 2
    /\ inbox[c][1].tick = 1
    /\ inbox[c][2].tick = 2

\* C7: in a firing in which a subscriber's write fails, every other
\* subscriber of each published channel gets that firing's payload as its
\* next frame, every method whose encoder returned a result is published,
\* and the process keeps running unless a codec's exception escaped.
C7_WriteFailureIsolated ==
  [][(TickStep /\ lastTick'.writeFails # {}) =>
       /\ \A i \in 1..Len(lastTick'.calls) :
            \A c \in subscribers[lastTick'.calls[i].topic] \ lastTick'.writeFails :
              inbox'[c] = Append(inbox[c], [tick |-> ticks',
                                            text |-> lastTick'.calls[i].text])
       /\ \A m \in MethodSet :
            HasResult(lastTick', m) => CallsTo(lastTick', ChannelOf[m]) # {}
       /\ (lastTick'.threw = {} => running')]_vars

\* three subscribers of one channel, one write failed, the other two hold
\* the frame of the latest firing
C7_Witness ==
  \E c \in lastTick.writeFails :
    /\ connState[c] = "open"
    /\ (inbox[c] = <<>> \/ LastFrame(c).tick < ticks)
    /\ \E d, e \in ConnIds \ {c} :
         /\ d # e
         /\ {c, d, e} \subseteq subscribers[ChannelOf[connPath[c]]]
         /\ inbox[d] # <<>> /\ LastFrame(d).tick = ticks
         /\ inbox[e] # <<>> /\ LastFrame(e).tick = ticks

\* C8 (as stated): a connection whose write failed in a firing is no longer
\* subscribed when the next firing publishes.
C8_FailedWriteUnsubscribed == lastTick.failedBefore = {}

\* C9: a connection whose close handler has run is in no subscriber set,
\* and nothing is written to it afterwards.
C9_CloseUnsubscribes ==
  \A c \in ConnIds :
    connState[c] = "free" =>
      /\ \A t \in Topics : c \notin subscribers[t]
      /\ inbox[c] = <<>>

\* a firing published all four methods while a closed connection existed
C9_Witness ==
  /\ ticks > 0
  /\ lastTick.afterClose
  /\ Len(lastTick.calls) = Len(Methods)
  /\ \E c \in ConnIds : connState[c] = "free"

\* C10: an open connection is subscribed to the channel of its route and to
\* no other, every message it holds is a payload of its route's method, and
\* a closed connection is in no channel.
C10_OwnChannelOnly ==
  \A c \in ConnIds :
    /\ connState[c] = "open" =>
         /\ {t \in Topics : c \in subscribers[t]} = {ChannelOf[connPath[c]]}
         /\ \A j \in 1..Len(inbox[c]) :
              IsDataset(Decoded(connPath[c], inbox[c][j].text))
    /\ connState[c] = "free" => {t \in Topics : c \in subscribers[t]} = {}

\* connections of two different routes each hold a message
C10_Witness ==
  \E c, d \in ConnIds :
    /\ connState[c] = "open" /\ connState[d] = "open"
    /\ connPath[c] # connPath[d]
    /\ inbox[c] # <<>> /\ inbox[d] # <<>>

\* C11 (as stated): once the server has been stopped no connection is open
\* and the timer does not fire again.
C11_StopCancelsTimer ==
  [][~listening' =>
       /\ \A c \in ConnIds : connState'[c] = "free"
       /\ (~listening => ticks' = ticks)]_vars

\* C12: a connection holds nothing when it has just subscribed, and every
\* frame it gets afterwards is appended by a firing that happens while it is
\* subscribed and carries that firing's own messageId: no payload of an
\* earlier firing is ever delivered.
C12_NoReplay ==
  [][\A c \in ConnIds :
       /\ (connState[c] = "free" /\ connState'[c] = "open") => inbox'[c] = <<>>
       /\ (connState'[c] = "open" /\ inbox'[c] # inbox[c]) =>
            /\ TickStep
            /\ connState[c] = "open"
            /\ Len(inbox'[c]) = Len(inbox[c]) + 1
            /\ SubSeq(inbox'[c], 1, Len(inbox[c])) = inbox[c]
            /\ inbox'[c][Len(inbox'[c])].tick = ticks'
            /\ LET d == Decoded(connPath[c], inbox'[c][Len(inbox'[c])].text)
               IN IsDataset(d) /\ d[1].messageId = messageCounter']_vars

\* a connection of the none route that was not subscribed at the first
\* firing (it got nothing from it although no write to it failed) holds
\* the frame of the second firing only
C12_Witness ==
  /\ ticks = 2
  /\ \E c \in ConnIds :
       /\ connState[c] = "open"
       /\ connPath[c] = "none"
       /\ c \notin lastTick.failedBefore
       /\ Len(inbox[c]) = 1
       /\ inbox[c][1].tick = 2

\* C13 (as stated): on every firing each method is published, also when
\* its channel has no subscriber, and every connection subscribed to a
\* channel gets the payload of the next firing.
C13_ServedWhateverCount ==
  [][TickStep =>
       \A m \in MethodSet :
         /\ (subscribers[ChannelOf[m]] = {} => CallsTo(lastTick', ChannelOf[m]) # {})
         /\ \A c \in subscribers[ChannelOf[m]] :
              inbox'[c] # <<>> /\ inbox'[c][Len(inbox'[c])].tick = ticks']_vars

\* C13 (amended): whether a method is published on a firing is decided by
\* its encoder's result alone, never by the subscriber count of its channel
\* (a channel without subscribers is published to all the same), a firing
\* changes no subscriber set, and a connection subscribed to a channel,
\* whenever it subscribed, gets the payload of the next firing that
\* publishes on the channel unless its own write fails.
C13_NoSubscriberGating ==
  [][TickStep =>
       /\ subscribers' = subscribers
       /\ \A m \in MethodSet :
            /\ (CallsTo(lastTick', ChannelOf[m]) # {}) <=> HasResult(lastTick', m)
            /\ \A c \in subscribers[ChannelOf[m]] \ lastTick'.writeFails :
                 HasResult(lastTick', m) =>
                   (inbox'[c] # <<>> /\ inbox'[c][Len(inbox'[c])].tick = ticks')]_vars

\* a firing with no subscriber on any channel published all four methods
C13_Witness ==
  /\ ticks > 0
  /\ lastTick.idle
  /\ \A m \in MethodSet : CallsTo(lastTick, ChannelOf[m]) # {}

C15_InboundIgnored ==
  [][inbound' # inbound =>
       /\ subscribers' = subscribers
       /\ messageCounter' = messageCounter
       /\ largePriceDataset' = largePriceDataset
       /\ inbox' = inbox
       /\ connState' = connState
       /\ connPath' = connPath
       /\ running' = running /\ listening' = listening]_vars

\* an inbound frame has been handled and a connection is open, subscribed
\* and holds a frame of the latest firing
C15_Witness ==
  /\ inbound > 0
  /\ \E c \in ConnIds :
       /\ connState[c] = "open"
       /\ c \in subscribers[ChannelOf[connPath[c]]]
       /\ inbox[c] # <<>>
       /\ inbox[c][Len(inbox[c])].tick = ticks

\* C16: at every moment the dataset is one the generator returns: each
\* record has the fields and values it was generated with, its ts included,
\* and no messageId.
C16_DatasetReadOnly ==
  /\ \E noise \in NoiseSet :
       largePriceDataset = generateLargePriceDataset(DatasetLen, 0, noise)
  /\ \A k \in 1..Len(largePriceDataset) :
       /\ "messageId" \notin DOMAIN largePriceDataset[k]
       /\ largePriceDataset[k].ts = (k - 1) * ItemStepMs

\* two firings have refreshed ts and messageId in their snapshots and a
\* connection holds a frame of the second
C16_Witness ==
  /\ ticks = 2
  /\ messageCounter = 2
  /\ \E c \in ConnIds : inbox[c] # <<>> /\ inbox[c][Len(inbox[c])].tick = 2

\* what the codec of a method makes of a buffer
CompressedBytes(m, buf) ==
  CASE m = "gzip" -> gzipSync(buf)
    [] m = "brotli" -> brotliCompressSync(buf)
    [] m = "zstd" -> zstdCompressSync(buf)

HasPayload(result) == "compressed" \in DOMAIN result

\* C17: for each method, what the page's decoder of that method recovers
\* from the payload its encoder returned for a dataset is the JSON text of
\* that dataset, and parsing it gives the dataset back.
C17_RoundTrip ==
  \A m \in MethodSet :
    HasPayload(encoded[m]) =>
      /\ originalJsonString(m, encoded[m].compressed) = JSONstringify(sample)
      /\ decodedDataset(m, encoded[m].compressed) = sample

\* the four encoders have returned a payload for a dataset of full length
C17_Witness ==
  /\ Len(sample) = DatasetLen
  /\ \A m \in MethodSet : HasPayload(encoded[m])

JsonTextCache == Tabulated([d \in Snapshots |-> JSONstringify(d)])

JsonTextOf(data) == IF data \in Snapshots THEN JsonTextCache[data] ELSE JSONstringify(data)

\* C19: on every firing the none encoder reports compressedSize equal to
\* originalSize, both the byte length of the JSON text of the firing's
\* snapshot.
C19_NoneSizes ==
  ticks > 0 =>
    LET r == lastTick.results["none"]
        json == JsonTextOf(Snapshot(largePriceDataset, now, messageCounter))
    IN /\ "originalSize" \in DOMAIN r
       /\ r.compressedSize = r.originalSize
       /\ r.originalSize = Len(BufferFrom(json))

\* a firing has run the none encoder on a snapshot of the whole dataset
C19_Witness ==
  /\ ticks > 0
  /\ "originalSize" \in DOMAIN lastTick.results["none"]
  /\ lastTick.results["none"].originalSize > 2 * DatasetLen
  /\ CallsTo(lastTick, ChannelOf["none"]) # {}

\* C20: subscribing a connection that is already in a topic's set changes
\* no subscriber set and writes nothing, and a publish writes the payload
\* exactly once to each subscriber whose write does not fail, however many
\* times it was subscribed.
C20_SubscribeIdempotent ==
  [][LET call == registryLog'[Len(registryLog')] IN
     Len(registryLog') = Len(registryLog) + 1 =>
       /\ (call.op = "subscribe" /\ call.conn \in subscribers[call.topic]) =>
            (subscribers' = subscribers /\ inbox' = inbox)
       /\ call.op = "publish" =>
            \A c \in ConnIds :
              inbox'[c] = IF c \in subscribers[call.topic] \ call.writeFails
                          THEN Append(inbox[c], [tick |-> ticks, text |-> RegistryPayload])
                          ELSE inbox[c]]_vars

\* a connection subscribed by its route's open handler was subscribed again
\* to the same topic, and the publish that followed wrote one frame to it
C20_Witness ==
  /\ Len(registryLog) = 2
  /\ registryLog[1].op = "subscribe"
  /\ registryLog[2].op = "publish"
  /\ registryLog[2].writeFails = {}
  /\ registryLog[2].topic = registryLog[1].topic
  /\ connState[registryLog[1].conn] = "open"
  /\ registryLog[1].topic = OpenTopic[connPath[registryLog[1].conn]]
  /\ Len(inbox[registryLog[1].conn]) = 1

\* C21: a connection that is not open, before its open handler has run or
\* after its close handler has, has left no trace in the subscriber sets:
\* every topic's set is what the handlers of the other connections alone
\* have made it, so subscribing and then unsubscribing the connection
\* leaves each set with the same size and the same other members, whatever
\* the others did in between; while it is open it is the only difference.
C21_SubscribeThenUnsubscribe ==
  \A c \in ConnIds :
    /\ connState[c] = "free" =>
         /\ subscribers = others[c]
         /\ \A t \in Topics : Cardinality(subscribers[t]) = Cardinality(others[c][t])
    /\ connState[c] = "open" =>
         \A t \in Topics : subscribers[t] \ {c} = others[c][t]

\* connection 1 has opened and closed again (connection 2 is accepted only
\* while 1 is open), and connection 2, opened in between, is still there
C21_Witness ==
  /\ connState[1] = "free"
  /\ connState[2] = "open"
  /\ subscribers[OpenTopic[connPath[2]]] = {2}
  /\ others[1] = subscribers

\* C22: a publish of a firing to a topic nobody is subscribed to changes no
\* subscriber set, writes to no connection outside the topics published
\* to, and ends neither the process nor the firing: every method whose
\* encoder returned a payload is published, and the calls after it reach
\* their subscribers.
C22_PublishToNobody ==
  [][TickStep =>
       \A i \in 1..Len(lastTick'.calls) :
         subscribers[lastTick'.calls[i].topic] = {} =>
           /\ subscribers' = subscribers
           /\ \A c \in ConnIds : c \notin Subscribed => inbox'[c] = inbox[c]
           /\ \A c \in ConnIds : \A j \in (Len(inbox[c]) + 1)..Len(inbox'[c]) :
                inbox'[c][j].text # lastTick'.calls[i].text
                  \/ \E k \in 1..Len(lastTick'.calls) :
                       /\ k # i
                       /\ c \in subscribers[lastTick'.calls[k].topic]
                       /\ lastTick'.calls[k].text = lastTick'.calls[i].text
           /\ ~running' => lastTick'.results["gzip"] = Thrown
           /\ \A m \in MethodSet :
                HasResult(lastTick', m) => CallsTo(lastTick', PublishTopic[m]) # {}
           /\ \A k \in (i + 1)..Len(lastTick'.calls) :
                \A c \in subscribers[lastTick'.calls[k].topic] \ lastTick'.writeFails :
                  /\ Len(inbox'[c]) = Len(inbox[c]) + 1
                  /\ inbox'[c][Len(inbox'[c])].text = lastTick'.calls[k].text]_vars

\* a firing published the none payload to nobody and then the gzip payload
\* to a subscriber, who holds it
C22_Witness ==
  /\ ticks = 1
  /\ Len(lastTick.calls) = 4
  /\ subscribers["feed-none"] = {}
  /\ \E c \in subscribers["feed-gzip"] :
       /\ Len(inbox[c]) = 1
       /\ inbox[c][1].text = lastTick.calls[2].text

AllFourOpen ==
  \A m \in MethodSet : \E c \in DOMAIN connState : connState[c] = "open" /\ connPath[c] = m

\* connection c receives, in this step, one frame: the payload of the
\* firing, of its messageId
ReceivesThisTick(c) ==
  /\ Len(inbox'[c]) = Len(inbox[c]) + 1
  /\ inbox'[c][Len(inbox'[c])].tick = ticks'
  /\ LET d == Decoded(connPath[c], inbox'[c][Len(inbox'[c])].text) IN
       IsDataset(d) /\ \A k \in 1..Len(d) : d[k].messageId = messageCounter'

\* C24 (as stated): no open or close handler runs within a firing, and a
\* client whose four connections are subscribed before a firing in which
\* all four encoders succeed receives its payload on all four channels.
C24_AllFourReceive ==
  [][TickStep =>
       /\ subscribers' = subscribers
       /\ connState' = connState
       /\ connPath' = connPath
       /\ (AllFourOpen /\ Len(lastTick'.calls) = Len(Methods)) =>
            \A c \in DOMAIN connState : connState[c] = "open" => ReceivesThisTick(c)]_vars

\* C24, what holds with a write that fails: the same, for the connections
\* whose write does not fail in the firing.
C24_AllFourReceiveUnlessWriteFails ==
  [][TickStep =>
       /\ subscribers' = subscribers
       /\ connState' = connState
       /\ connPath' = connPath
       /\ (AllFourOpen /\ Len(lastTick'.calls) = Len(Methods)) =>
            \A c \in DOMAIN connState :
              (connState[c] = "open" /\ c \notin lastTick'.writeFails) =>
                ReceivesThisTick(c)]_vars

\* all four connections of a client are open and each holds, as its last
\* frame, the payload of the latest firing
C24_Witness ==
  /\ AllFourOpen
  /\ ticks >= 1
  /\ Len(lastTick.calls) = Len(Methods)
  /\ lastTick.writeFails = {}
  /\ \A m \in MethodSet :
       /\ inbox[PageSlot(m)] # <<>>
       /\ LastFrame(PageSlot(m)).tick = ticks
       /\ Decoded(m, LastFrame(PageSlot(m)).text)[1].messageId = messageCounter

\* C25: messageCounter is the number of firings so far, whatever they
\* published, and every frame a connection holds carries the number of the
\* firing that published it: the first id is 1 and no two firings share one.
C25_CounterIsTickCount ==
  /\ messageCounter = ticks
  /\ \A c \in ConnIds :
       \A j \in 1..Len(inbox[c]) :
         LET d == Decoded(connPath[c], inbox[c][j].text) IN
         /\ IsDataset(d)
         /\ d[1].messageId = inbox[c][j].tick
         /\ d[1].messageId >= 1
  /\ \A c, e \in ConnIds :
       \A j \in 1..Len(inbox[c]) : \A k \in 1..Len(inbox[e]) :
         inbox[c][j].tick # inbox[e][k].tick =>
           Decoded(connPath[c], inbox[c][j].text)[1].messageId
             # Decoded(connPath[e], inbox[e][k].text)[1].messageId

\* the write to a connection failed in the first firing, which delivered
\* nothing to it, and the frame it holds from the second has messageId 2
C25_Witness ==
  /\ ticks = 2
  /\ messageCounter = 2
  /\ \E c \in lastTick.failedBefore :
       /\ Len(inbox[c]) = 1
       /\ Decoded(connPath[c], inbox[c][1].text)[1].messageId = 2

\* the sockets of a type that are connecting or open
Live(t) ==
  {s \in DOMAIN sockets :
     sockets[s].type = t /\ sockets[s].readyState \in {"CONNECTING", "OPEN"}}

\* C26: the page has at most one connecting or open socket per compression
\* type, and connections[type] refers to every open socket of the type.
C26_OneLiveSocketPerType ==
  /\ \A t \in MethodSet : Cardinality(Live(t)) <= 1
  /\ \A s \in DOMAIN sockets :
       sockets[s].readyState = "OPEN" => connections[sockets[s].type] = s

\* every socket the page created is closed
AllClosed == \A s \in DOMAIN sockets : sockets[s].readyState = "CLOSED"

\* C27: whenever Stop is disabled (Stop Streaming has run, or nothing was
\* started yet), every socket created so far is eventually closed unless
\* a Start comes first, and once they are closed no message is received
\* and none adds to the statistics of a type with no handler waiting.
C27_StopClosesEverySocket ==
  /\ [](stopBtnDisabled => <>(~stopBtnDisabled \/ AllClosed))
  /\ [][(stopBtnDisabled /\ AllClosed /\ stopBtnDisabled') =>
          /\ received' = received
          /\ \A t \in MethodSet \ {"gzip"} : stats'[t].messages <= stats[t].messages]_vars

\* exactly one of Start and Stop is enabled, and the uptime timer, the only
\* active timer, runs exactly when Stop is enabled
ButtonsConsistent ==
  /\ startBtnDisabled # stopBtnDisabled
  /\ (uptimeInterval # NullRef) <=> ~stopBtnDisabled
  /\ timers = IF uptimeInterval = NullRef THEN {} ELSE {uptimeInterval}
  /\ Cardinality(timers) <= 1
  /\ (startTime # NullRef) <=> ~stopBtnDisabled

\* C28: exactly one of the Start and Stop buttons is enabled before and
\* after every step of the page, the uptime timer runs exactly when Stop
\* is enabled and is the only timer, and a Start with nothing selected
\* (which shows the alert) changes nothing else.
C28_ButtonsAndTimer ==
  [][/\ ButtonsConsistent
     /\ ButtonsConsistent'
     /\ alerts' # alerts =>
          /\ selectedTypes = {}
          /\ UNCHANGED <<selectedTypes, connections, sockets, stats, pending, startTime,
                         uptimeInterval, timers, timerCount, startBtnDisabled,
                         stopBtnDisabled, received>>]_vars

\* the page was started and stopped, a Start with nothing selected showed
\* the alert, and after a second Start the second timer is the one running
C28_Witness ==
  /\ alerts = 1
  /\ timerCount = 2
  /\ timers = {2}
  /\ startBtnDisabled
  /\ ~stopBtnDisabled

RECURSIVE SumSeq(_)
SumSeq(q) == IF q = <<>> THEN 0 ELSE q[1] + SumSeq(Tail(q))

StatsConsistent ==
  \A t \in MethodSet :
    /\ stats[t].messages = Len(stats[t].sizes)
    /\ stats[t].messages = Len(stats[t].decompressionTimes)
    /\ stats[t].totalBytes = SumSeq(stats[t].sizes)

\* C29: before and after every step of the page, for every type, messages
\* is the length of sizes and of decompressionTimes and totalBytes is the
\* sum of sizes; a step that lowers a count is Clear Data, and it leaves
\* every type's statistics zero and empty.
C29_StatsConsistent ==
  [][/\ StatsConsistent
     /\ StatsConsistent'
     /\ (\E t \in MethodSet : stats'[t].messages < stats[t].messages) =>
          stats' = [t \in MethodSet |-> EmptyStat]]_vars

\* two gzip messages of different lengths have been received and processed
C29_Witness ==
  /\ received = 2
  /\ pending = <<>>
  /\ stats["gzip"].messages = 2
  /\ stats["gzip"].sizes = <<6, 3>>
  /\ stats["gzip"].totalBytes = 9

\* C30: for the payload each codec's encoder returned, the size the page
\* computes from the length of the base64 text is the compressedSize the
\* encoder measured.
C30_ClientSizeIsCompressedSize ==
  \A m \in Codecs :
    HasPayload(encoded[m]) =>
      ClientCompressedSize(m, Len(encoded[m].compressed), encoded[m].originalSize)
        = encoded[m].compressedSize

====
